---- MODULE Spec2Model ----
(***************************************************************************)
(* Model of helix-core/src/abbreviations.rs: the abbreviation table        *)
(* (insert, remove, load from a file) and the expansion transaction        *)
(* builder expand_or_insert.                                               *)
(*                                                                         *)
(* Strings are sequences of one-character strings.  Offsets are 0-based    *)
(* char offsets as in the Rust code; the character at offset i of a        *)
(* document d is d[i + 1].                                                 *)
(***************************************************************************)
EXTENDS Integers, Sequences, FiniteSets, TLC

VARIABLES abbrs, file, op, before, doc, selection, c, pc, result

vars == <<abbrs, file, op, before, doc, selection, c, pc, result>>

(***************************************************************************)
(* Bounds of the model.                                                    *)
(***************************************************************************)
MaxDocLen == 3
MaxCursors == 2
MaxFileLen == 6

DocChars == {"a", "A", " "}
TypedChars == {"a", " "}
KeySet == {<<>>, <<"a">>, <<"a", "A">>}
ExpSet == {<<>>, <<"b", "y">>}
FileChars == {"a", " ", "\n"}
AbbrArgs == {<<>>, <<"a">>}
WordArgs == {<<>>, <<"a">>}

SeqsUpTo(S, n) == UNION {[1..k -> S] : k \in 0..n}

(***************************************************************************)
(* Option<T>                                                               *)
(***************************************************************************)
None == [tag |-> "None"]
Some(v) == [tag |-> "Some", val |-> v]

(***************************************************************************)
(* The table: HashMap<String, String> as a function on its key set.        *)
(***************************************************************************)
Default == [k \in {} |-> <<>>]

\* Variant of insert that keeps the expansion of a key already present.
GetOrInsert(map, k, v) ==
    [x \in (DOMAIN map) \cup {k} |-> IF x \in DOMAIN map THEN map[x] ELSE v]

MapInsert(map, k, v) ==
    [x \in (DOMAIN map) \cup {k} |-> IF x = k THEN v ELSE map[x]]

MapRemove(map, k) == [x \in (DOMAIN map) \ {k} |-> map[x]]

ToLower(s) == [i \in 1..Len(s) |-> IF s[i] = "A" THEN "a" ELSE s[i]]

\* Variant of the lookup that ignores case.
GetIgnoreCase(map, k) ==
    IF \E x \in DOMAIN map : ToLower(x) = ToLower(k)
    THEN Some(map[CHOOSE x \in DOMAIN map : ToLower(x) = ToLower(k)])
    ELSE None

MapGet(map, k) == IF k \in DOMAIN map THEN Some(map[k]) ELSE None

(***************************************************************************)
(* Loading: read_to_string, lines(), split_once(' '), insert.              *)
(***************************************************************************)
Unreadable == [ok |-> FALSE]
Readable(content) == [ok |-> TRUE, content |-> content]

FirstIndex(s, ch) ==
    IF \E i \in 1..Len(s) : s[i] = ch
    THEN CHOOSE i \in 1..Len(s) : s[i] = ch /\ \A j \in 1..(i - 1) : s[j] # ch
    ELSE 0

RECURSIVE Lines(_)
Lines(s) ==
    IF s = <<>> THEN <<>>
    ELSE LET i == FirstIndex(s, "\n") IN
         IF i = 0 THEN <<s>>
         ELSE <<SubSeq(s, 1, i - 1)>> \o Lines(SubSeq(s, i + 1, Len(s)))

SplitOnce(line) ==
    LET i == FirstIndex(line, " ") IN
    IF i = 0 THEN None
    ELSE Some(<<SubSeq(line, 1, i - 1), SubSeq(line, i + 1, Len(line))>>)

RECURSIVE LoadLines(_, _)
LoadLines(abbr, lines) ==
    IF lines = <<>> THEN abbr
    ELSE LET split == SplitOnce(Head(lines)) IN
         LoadLines(IF split # None
                   THEN MapInsert(abbr, split.val[1], split.val[2])
                   ELSE abbr,
                   Tail(lines))

\* Variant of the loader that stops at the first line without a space.
RECURSIVE LoadLinesUntilMalformed(_, _)
LoadLinesUntilMalformed(abbr, lines) ==
    IF lines = <<>> THEN abbr
    ELSE LET split == SplitOnce(Head(lines)) IN
         IF split # None
         THEN LoadLinesUntilMalformed(MapInsert(abbr, split.val[1], split.val[2]),
                                      Tail(lines))
         ELSE abbr

FromPathUntilMalformed(value) ==
    IF value.ok THEN LoadLinesUntilMalformed(Default, Lines(value.content))
    ELSE Default

FromPath(value) ==
    IF value.ok THEN LoadLines(Default, Lines(value.content)) ELSE Default

(***************************************************************************)
(* Ranges, the word-boundary oracle, changes and transactions.             *)
(***************************************************************************)
Range(anchor, head) == [anchor |-> anchor, head |-> head]
Point(pos) == Range(pos, pos)

RangeCursor(range) == range.head

RangeLen(range) ==
    IF range.anchor >= range.head THEN range.anchor - range.head
    ELSE range.head - range.anchor

Slice(text, from, to) == SubSeq(text, from + 1, to)

IsWordChar(ch) == ch # " "

\* The oracle: head is the start of the word preceding the position, anchor
\* the offset immediately after that word; the range is returned unchanged
\* when no word precedes the position.
MovePrevWordStart(text, range) ==
    LET p == range.head
        ends == {j \in 0..p : j < Len(text) /\ IsWordChar(text[j + 1])}
    IN  IF ends = {} THEN range
        ELSE LET last == CHOOSE j \in ends : \A k \in ends : k <= j
                 starts == {i \in 0..last :
                              \A k \in i..last : IsWordChar(text[k + 1])}
                 first == CHOOSE i \in starts : \A k \in starts : i <= k
             IN  Range(last + 1, first)

Change(from, to, text) == [from |-> from, to |-> to, text |-> text]

\* What Transaction::change requires of its changes: ordered by position,
\* non-overlapping, inside the document.
TransactionValid(text, changes) ==
    \A i \in 1..Len(changes) :
        /\ changes[i].from <= changes[i].to
        /\ changes[i].to <= Len(text)
        /\ i > 1 => changes[i - 1].to <= changes[i].from

ApplyChange(text, ch) ==
    Slice(text, 0, ch.from) \o ch.text \o Slice(text, ch.to, Len(text))

RECURSIVE Apply(_, _)
Apply(text, changes) ==
    IF changes = <<>> THEN text
    ELSE Apply(ApplyChange(text, changes[Len(changes)]),
               SubSeq(changes, 1, Len(changes) - 1))

(***************************************************************************)
(* expand_or_insert                                                        *)
(***************************************************************************)
InsertChar(ch, cursor) == Change(cursor, cursor, <<ch>>)

\* Variant of the closure that forgets t.push(c) in the Some arm.
ExpandChangeWithoutChar(map, text, range, ch) ==
    LET cursor == RangeCursor(range) IN
    IF cursor = 0 THEN InsertChar(ch, cursor)
    ELSE LET current_word_range == MovePrevWordStart(text, Point(cursor - 1)) IN
         IF RangeLen(current_word_range) < 1 THEN InsertChar(ch, cursor)
         ELSE LET current_word == Slice(text, current_word_range.head,
                                        current_word_range.anchor)
                  whole_word == MapGet(map, current_word)
              IN  IF whole_word # None
                  THEN Change(RangeCursor(current_word_range), cursor,
                              whole_word.val)
                  ELSE InsertChar(ch, cursor)

\* Variant of the closure without the early return on an empty word range.
ExpandChangeNoLenCheck(map, text, range, ch) ==
    LET cursor == RangeCursor(range) IN
    IF cursor = 0 THEN InsertChar(ch, cursor)
    ELSE LET current_word_range == MovePrevWordStart(text, Point(cursor - 1))
             current_word == Slice(text, current_word_range.head,
                                   current_word_range.anchor)
             whole_word == MapGet(map, current_word)
         IN  IF whole_word # None
             THEN Change(RangeCursor(current_word_range), cursor,
                         whole_word.val \o <<ch>>)
             ELSE InsertChar(ch, cursor)

\* The closure handed to change_by_selection: one Change per range.
ExpandChange(map, text, range, ch) ==
    LET cursor == RangeCursor(range) IN
    IF cursor = 0 THEN InsertChar(ch, cursor)
    ELSE LET current_word_range == MovePrevWordStart(text, Point(cursor - 1)) IN
         IF RangeLen(current_word_range) < 1 THEN InsertChar(ch, cursor)
         ELSE LET current_word == Slice(text, current_word_range.head,
                                        current_word_range.anchor)
                  whole_word == MapGet(map, current_word)
              IN  IF whole_word # None
                  THEN Change(RangeCursor(current_word_range), cursor,
                              whole_word.val \o <<ch>>)
                  ELSE InsertChar(ch, cursor)

\* Variant that moves each change by the characters typed at earlier cursors.
ExpandOrInsertShifted(map, text, sel, ch) ==
    Some([i \in 1..Len(sel) |->
            LET change == ExpandChange(map, text, sel[i], ch) IN
            Change(change.from + (i - 1), change.to + (i - 1), change.text)])

\* change_by_selection calls the closure on each range of the selection, in
\* order, and collects the changes into the transaction.
ExpandOrInsert(map, text, sel, ch) ==
    Some([i \in 1..Len(sel) |-> ExpandChange(map, text, sel[i], ch)])

(***************************************************************************)
(* Specification of the table: insert, remove and load from a file,        *)
(* starting from the empty table.  op and before record the last           *)
(* operation and the table it was applied to.                              *)
(***************************************************************************)
FileContents == SeqsUpTo(FileChars, MaxFileLen)

InitTable ==
    /\ abbrs = Default
    /\ file \in {Unreadable} \cup {Readable(s) : s \in FileContents}
    /\ op = [kind |-> "default"]
    /\ before = Default
    /\ doc = <<>>
    /\ selection = <<>>
    /\ c = "a"
    /\ pc = "idle"
    /\ result = None

Insert(abbr, whole_word) ==
    /\ abbrs' = MapInsert(abbrs, abbr, whole_word)
    /\ op' = [kind |-> "insert", key |-> abbr, val |-> whole_word]
    /\ before' = abbrs
    /\ UNCHANGED <<file, doc, selection, c, pc, result>>

Remove(key) ==
    /\ abbrs' = MapRemove(abbrs, key)
    /\ op' = [kind |-> "remove", key |-> key]
    /\ before' = abbrs
    /\ UNCHANGED <<file, doc, selection, c, pc, result>>

Load ==
    /\ abbrs' = FromPath(file)
    /\ op' = [kind |-> "load"]
    /\ before' = abbrs
    /\ UNCHANGED <<file, doc, selection, c, pc, result>>

NextTable ==
    \/ \E abbr \in AbbrArgs, whole_word \in WordArgs : Insert(abbr, whole_word)
    \/ \E key \in AbbrArgs : Remove(key)
    \/ Load

SpecTable == InitTable /\ [][NextTable]_vars

(***************************************************************************)
(* Specification of the builder: the inputs of one call are drawn in the   *)
(* initial state, the call computes the transaction.                       *)
(***************************************************************************)
TableSet == UNION {[S -> ExpSet] : S \in SUBSET KeySet}
Docs == SeqsUpTo(DocChars, MaxDocLen)
\* A selection holds its ranges in ascending order, no two at one position.
Selections(text) ==
    {sel \in SeqsUpTo({Point(p) : p \in 0..Len(text)}, MaxCursors) :
        \A i \in 2..Len(sel) : sel[i - 1].head < sel[i].head}

Init ==
    /\ abbrs \in TableSet
    /\ file = Unreadable
    /\ op = [kind |-> "default"]
    /\ before = Default
    /\ doc \in Docs
    /\ selection \in Selections(doc)
    /\ c \in TypedChars
    /\ pc = "start"
    /\ result = None

Call ==
    /\ pc = "start"
    /\ result' = ExpandOrInsert(abbrs, doc, selection, c)
    /\ pc' = "done"
    /\ UNCHANGED <<abbrs, file, op, before, doc, selection, c>>

Next == Call

Spec == Init /\ [][Next]_vars

(***************************************************************************)
(* Properties of expand_or_insert (specification Spec).                    *)
(***************************************************************************)
Cursors == 1..Len(selection)
CursorAt(i) == RangeCursor(selection[i])
WordRange(i) == MovePrevWordStart(doc, Point(CursorAt(i) - 1))
Word(i) == Slice(doc, WordRange(i).head, WordRange(i).anchor)
HasWord(i) == CursorAt(i) > 0 /\ RangeLen(WordRange(i)) >= 1
Hit(i) == HasWord(i) /\ Word(i) \in DOMAIN abbrs
Returned == pc = "done" /\ result # None

IsPrefix(s, t) == Len(s) <= Len(t) /\ SubSeq(t, 1, Len(s)) = s

C2_LengthAfterExpansion ==
    (Returned /\ Len(selection) = 1 /\ Hit(1)) =>
        Len(Apply(doc, result.val)) =
            Len(doc) - Len(Word(1)) + Len(abbrs[Word(1)]) + 1

\* C3: for distinct cursors in ascending order the changes are pairwise
\* non-overlapping and ordered by position: each change starts at or after
\* the end of the previous one.
AscendingCursors == \A i \in Cursors : i > 1 => CursorAt(i - 1) < CursorAt(i)

C3_ChangesOrdered ==
    (Returned /\ AscendingCursors) =>
        \A i \in Cursors : i > 1 => result.val[i - 1].to <= result.val[i].from

C5_NoCandidatePlainInsert ==
    pc = "done" =>
        /\ result # None
        /\ \A i \in Cursors :
              (CursorAt(i) = 0 \/ RangeLen(WordRange(i)) < 1) =>
                  result.val[i] = Change(CursorAt(i), CursorAt(i), <<c>>)

C5_Witness ==
    /\ Returned
    /\ <<>> \in DOMAIN abbrs
    /\ \E i \in Cursors : CursorAt(i) > 0 /\ RangeLen(WordRange(i)) < 1
    /\ \E i \in Cursors : CursorAt(i) = 0

\* C6: a cursor whose preceding word is not a key (exact, case-sensitive
\* equality) gets the plain insert of the typed character: nothing is
\* deleted.
C6_MissPlainInsert ==
    pc = "done" =>
        /\ result # None
        /\ \A i \in Cursors :
              (HasWord(i) /\ Word(i) \notin DOMAIN abbrs) =>
                  result.val[i] = Change(CursorAt(i), CursorAt(i), <<c>>)

C6_Witness ==
    /\ Returned
    /\ \E i \in Cursors :
          /\ HasWord(i)
          /\ Word(i) \notin DOMAIN abbrs
          /\ \E k \in DOMAIN abbrs : k # Word(i) /\ IsPrefix(Word(i), k)
    /\ \E i \in Cursors :
          /\ HasWord(i)
          /\ Word(i) \notin DOMAIN abbrs
          /\ \E k \in DOMAIN abbrs : ToLower(k) = ToLower(Word(i))

\* C7: the call never fails: it returns a transaction whose construction is
\* valid for every input, and for an empty selection the transaction holds
\* no changes.
C7_NeverFails ==
    pc = "done" =>
        /\ result # None
        /\ TransactionValid(doc, result.val)
        /\ selection = <<>> => result.val = <<>>

(***************************************************************************)
(* Properties of the table (specification SpecTable).                      *)
(***************************************************************************)
FileLines == IF file.ok THEN Lines(file.content) ELSE <<>>

\* C8: after any sequence of insert, remove and load the table holds no
\* entry whose key is the empty string.
C8_NoEmptyKey == <<>> \notin DOMAIN abbrs

\* C9 as stated: an unreadable source gives the empty table, a line without
\* a space gives no entry and does not stop later lines, and for every line
\* with a non-empty left-hand side lookup(left part) is the whole remainder
\* of that line after its first space.
C9_LoadEveryLine ==
    op.kind = "load" =>
        /\ ~file.ok => abbrs = Default
        /\ \A k \in DOMAIN abbrs :
              \E n \in 1..Len(FileLines) :
                  SplitOnce(FileLines[n]) = Some(<<k, abbrs[k]>>)
        /\ \A n \in 1..Len(FileLines) :
              LET split == SplitOnce(FileLines[n]) IN
              (split # None /\ split.val[1] # <<>>) =>
                  MapGet(abbrs, split.val[1]) = Some(split.val[2])

\* C9 amended: as C9, but when several lines share a left part, lookup gives
\* the remainder of the last of them.
C9_LoadLastLineWins ==
    op.kind = "load" =>
        /\ ~file.ok => abbrs = Default
        /\ \A k \in DOMAIN abbrs :
              \E n \in 1..Len(FileLines) :
                  SplitOnce(FileLines[n]) = Some(<<k, abbrs[k]>>)
        /\ \A n \in 1..Len(FileLines) :
              LET split == SplitOnce(FileLines[n]) IN
              (/\ split # None
               /\ split.val[1] # <<>>
               /\ \A m \in (n + 1)..Len(FileLines) :
                     LET later == SplitOnce(FileLines[m]) IN
                     later = None \/ later.val[1] # split.val[1]) =>
                  MapGet(abbrs, split.val[1]) = Some(split.val[2])

C9_Witness ==
    /\ op.kind = "load"
    /\ \E n \in 1..Len(FileLines) :
          /\ SplitOnce(FileLines[n]) # None
          /\ SplitOnce(FileLines[n]).val[1] # <<>>
          /\ FirstIndex(SplitOnce(FileLines[n]).val[2], " ") > 0
          /\ \E m \in 1..(n - 1) : SplitOnce(FileLines[m]) = None
          /\ abbrs[SplitOnce(FileLines[n]).val[1]] = SplitOnce(FileLines[n]).val[2]

\* C10: inserting a pair the table already holds leaves the table unchanged,
\* removing an absent key leaves the table unchanged, and an insert changes
\* only the inserted key's expansion.
C10_Idempotent ==
    /\ (op.kind = "insert" /\ MapGet(before, op.key) = Some(op.val)) =>
           abbrs = before
    /\ (op.kind = "remove" /\ op.key \notin DOMAIN before) => abbrs = before
    /\ op.kind = "insert" =>
           /\ DOMAIN abbrs = (DOMAIN before) \cup {op.key}
           /\ abbrs[op.key] = op.val
           /\ \A k \in (DOMAIN before) \ {op.key} : abbrs[k] = before[k]

C10_Witness ==
    /\ op.kind = "insert"
    /\ MapGet(before, op.key) = Some(op.val)
    /\ \E k \in DOMAIN abbrs : k # op.key
    /\ abbrs = before

====
